---------------------------- MODULE Spec2Model ----------------------------
(***************************************************************************)
(* Model of the rectangular duct sizing engine of                          *)
(* src/components/ductulator/Ductulator.tsx: the duct evaluator            *)
(* (calcRectNums), the two bisection solvers (solveMissingDimension,       *)
(* solveMaxFlow), the mode dispatcher (runSolverWithValues) with the       *)
(* coordinate-descent "magic" search, and the component state the handlers *)
(* read and write.                                                         *)
(*                                                                         *)
(* JavaScript numbers are modelled as decimal floating-point values        *)
(* <<m, e>> = m * 10^e with a four-digit mantissa (1000 <= |m| <= 9999, or  *)
(* m = 0), the exponent range of binary64, and the three special values    *)
(* Inf, NegInf and NaN with the IEEE rules for arithmetic and comparison.  *)
(* Results are truncated to four digits, so the model computes what the    *)
(* code computes at reduced precision.                                     *)
(***************************************************************************)
EXTENDS Integers, Sequences, FiniteSets, TLC

(***************************************************************************)
(* Numbers                                                                 *)
(***************************************************************************)
ESpecial == 999
\* the JavaScript value null, where a number is expected
Null == <<0, ESpecial + 1>>
NaN == <<0, ESpecial>>
Inf == <<1, ESpecial>>
NegInf == <<-1, ESpecial>>
Zero == <<0, 0>>

\* largest and smallest decimal exponent of a normalised four-digit mantissa
EMax == 308 - 3
EMin == (-324) - 3

P10 == <<1, 10, 100, 1000, 10000, 100000, 1000000, 10000000, 100000000, 1000000000>>

IAbs(i) == IF i < 0 THEN -i ELSE i
ISgn(i) == IF i < 0 THEN -1 ELSE IF i > 0 THEN 1 ELSE 0

IsNaN(a) == a = NaN
IsInf(a) == a = Inf \/ a = NegInf
\* Number.isFinite
IsFinite(a) == a[2] # ESpecial

\* number of decimal places the magnitude i has to be shifted right to leave four digits
IShift(i) ==
  IF i < 10000
    THEN (IF i < 100 THEN (IF i < 10 THEN -3 ELSE -2) ELSE (IF i < 1000 THEN -1 ELSE 0))
    ELSE IF i < 1000000
      THEN (IF i < 100000 THEN 1 ELSE 2)
      ELSE IF i < 100000000
        THEN (IF i < 10000000 THEN 3 ELSE 4)
        ELSE (IF i < 1000000000 THEN 5 ELSE 6)

\* the number i * 10^e, truncated to four digits; overflow (beyond 1.797e308) gives an
\* infinity, underflow zero
FNorm(i, e) ==
  LET Packed(sgn, m, x) ==
        IF x > EMax \/ (x = EMax /\ m > 1797) THEN (IF sgn < 0 THEN NegInf ELSE Inf)
        ELSE IF x < EMin THEN Zero
        ELSE <<sgn * m, x>>
      Shifted(sgn, a, k) ==
        Packed(sgn, IF k <= 0 THEN a * P10[1 - k] ELSE a \div P10[1 + k], e + k)
  IN  IF i = 0 THEN Zero ELSE Shifted(ISgn(i), IAbs(i), IShift(IAbs(i)))

\* the literal m * 10^e
F(m, e) == FNorm(m, e)
Num(i) == FNorm(i, 0)

FNeg(a) == IF IsNaN(a) THEN NaN ELSE <<-a[1], a[2]>>
FAbs(a) == IF IsNaN(a) THEN NaN ELSE <<IAbs(a[1]), a[2]>>

FMul(a, b) ==
  IF IsNaN(a) \/ IsNaN(b) THEN NaN
  ELSE IF IsInf(a) \/ IsInf(b)
    THEN (IF a[1] = 0 \/ b[1] = 0 THEN NaN
          ELSE IF ISgn(a[1]) * ISgn(b[1]) < 0 THEN NegInf ELSE Inf)
  ELSE FNorm(a[1] * b[1], a[2] + b[2])

FDiv(a, b) ==
  IF IsNaN(a) \/ IsNaN(b) THEN NaN
  ELSE IF IsInf(a)
    THEN (IF IsInf(b) THEN NaN
          ELSE IF (a[1] < 0) # (b[1] < 0) THEN NegInf ELSE Inf)
  ELSE IF IsInf(b) THEN Zero
  ELSE IF b[1] = 0
    THEN (IF a[1] = 0 THEN NaN ELSE IF a[1] < 0 THEN NegInf ELSE Inf)
  ELSE LET q == (IAbs(a[1]) * 100000) \div IAbs(b[1])
       IN  FNorm(ISgn(a[1]) * ISgn(b[1]) * q, a[2] - b[2] - 5)

FAdd(a, b) ==
  IF IsNaN(a) \/ IsNaN(b) THEN NaN
  ELSE IF IsInf(a) THEN (IF IsInf(b) /\ a # b THEN NaN ELSE a)
  ELSE IF IsInf(b) THEN b
  ELSE IF a[1] = 0 THEN b
  ELSE IF b[1] = 0 THEN a
  ELSE LET d == a[2] - b[2]
       IN  IF d >= 5 THEN a
           ELSE IF d <= -5 THEN b
           ELSE IF d >= 0 THEN FNorm(a[1] * P10[1 + d] + b[1], b[2])
           ELSE FNorm(b[1] * P10[1 - d] + a[1], a[2])

FSub(a, b) == FAdd(a, FNeg(b))

\* a < b; false when either is NaN
FLt(a, b) ==
  /\ ~IsNaN(a)
  /\ ~IsNaN(b)
  /\ a # b
  /\ FSub(a, b)[1] < 0
FGt(a, b) == FLt(b, a)
FLe(a, b) == ~IsNaN(a) /\ ~IsNaN(b) /\ (a = b \/ FLt(a, b))
FGe(a, b) == FLe(b, a)

\* Math.max of two numbers
FMax(a, b) == IF IsNaN(a) \/ IsNaN(b) THEN NaN ELSE IF FLt(a, b) THEN b ELSE a

RECURSIVE ISqrtIn(_, _, _)
\* the largest r in lo..hi with r * r <= n
ISqrtIn(n, lo, hi) ==
  IF lo >= hi THEN lo
  ELSE LET mid == (lo + hi + 1) \div 2
       IN  IF mid * mid <= n THEN ISqrtIn(n, mid, hi) ELSE ISqrtIn(n, lo, mid - 1)

\* Math.sqrt
FSqrt(a) ==
  IF IsNaN(a) \/ a[1] < 0 THEN NaN
  ELSE IF a = Inf \/ a[1] = 0 THEN a
  ELSE IF a[2] % 2 = 0
    THEN FNorm(ISqrtIn(a[1] * 10000, 3162, 9999), (a[2] - 4) \div 2)
    ELSE FNorm(ISqrtIn(a[1] * 100000, 10000, 31622), (a[2] - 5) \div 2)

\* the fixed-point number a * 1024, truncated, for |a| < 2000
ToFix(a) ==
  IF a[2] >= 0 THEN a[1] * 1024 * P10[1 + a[2]]
  ELSE IF a[2] >= -5 THEN ISgn(a[1]) * ((IAbs(a[1]) * 1024) \div P10[1 - a[2]])
  ELSE IF a[2] >= -9 THEN ISgn(a[1]) * (((IAbs(a[1]) * 1024) \div 100000) \div P10[1 - a[2] - 5])
  ELSE 0

RECURSIVE Log10Bits(_, _, _)
\* 1024 * log10(y / 1000) for 1000 <= y <= 9999, by repeated squaring, bit by bit
Log10Bits(y, w, acc) ==
  IF w = 0 THEN acc
  ELSE LET sq == (y * y) \div 1000
       IN  IF sq >= 10000 THEN Log10Bits(sq \div 10, w \div 2, acc + w)
           ELSE Log10Bits(sq, w \div 2, acc)

\* Math.log10
FLog10(a) ==
  IF IsNaN(a) \/ a[1] < 0 THEN NaN
  ELSE IF a[1] = 0 THEN NegInf
  ELSE IF a = Inf THEN Inf
  ELSE FDiv(Num((a[2] + 3) * 1024 + Log10Bits(a[1], 512, 0)), Num(1024))

\* 10^(2^-k), k = 1..10
Exp10Tab == << <<3162, -3>>, <<1778, -3>>, <<1334, -3>>, <<1155, -3>>, <<1075, -3>>,
               <<1037, -3>>, <<1018, -3>>, <<1009, -3>>, <<1005, -3>>, <<1002, -3>> >>

RECURSIVE Exp10Frac(_, _, _, _)
\* 10^(f / 1024) for 0 <= f < 1024: the product of the table entries of the set bits of f
Exp10Frac(f, w, k, acc) ==
  IF w = 0 THEN acc
  ELSE IF f >= w THEN Exp10Frac(f - w, w \div 2, k + 1, FMul(acc, Exp10Tab[k]))
  ELSE Exp10Frac(f, w \div 2, k + 1, acc)

\* 10^y for a finite y
FExp10(y) ==
  IF FGt(y, Num(1000)) THEN Inf
  ELSE IF FLt(y, Num(-1000)) THEN Zero
  ELSE LET Scaled(r, n) == FNorm(r[1], r[2] + n)
           Split(x, n) == Scaled(Exp10Frac(x - n * 1024, 512, 1, <<1000, -3>>), n)
           Floor(x) == Split(x, IF x >= 0 THEN x \div 1024 ELSE -((-x + 1023) \div 1024))
       IN  Floor(ToFix(y))

\* Math.pow(a, p) for a finite exponent p > 0 that is not an integer
FPow(a, p) ==
  IF IsNaN(a) \/ a[1] < 0 THEN NaN
  ELSE IF a[1] = 0 THEN Zero
  ELSE IF a = Inf THEN Inf
  ELSE FExp10(FMul(p, FLog10(a)))

(***************************************************************************)
(* Units and physics helpers                                               *)
(***************************************************************************)
mmToM(mm) == FDiv(mm, Num(1000))
mToMm(m) == FMul(m, Num(1000))
lsToM3s(ls) == FMul(ls, F(1, -3))
m3hToM3s(m3h) == FDiv(m3h, Num(3600))

\* safeNum: Number(v) when that is finite (Number(null) is 0), else the fallback
safeNum(v, fallback) == IF v = Null THEN Zero ELSE IF IsFinite(v) THEN v ELSE fallback

\* JavaScript truthiness of a number or null: 0, NaN and null are falsy
Truthy(v) == v # Zero /\ v # NaN /\ v # Null
\* v || d
OrElse(v, d) == IF Truthy(v) THEN v ELSE d

\* Math.exp
FExp(a) ==
  IF IsNaN(a) THEN NaN
  ELSE IF a = Inf THEN Inf
  ELSE IF a = NegInf THEN Zero
  ELSE FExp10(FMul(a, F(4343, -4)))

saturationVaporPressurePa(Tc) ==
  FMul(F(61094, -2), FExp(FDiv(FMul(F(17625, -3), Tc), FAdd(F(24304, -2), Tc))))

moistAirDensity(pressurePa, Tc, RHpercent) ==
  LET T == FAdd(Tc, F(27315, -2))
      Rd == F(287058, -3)
      Rv == F(461495, -3)
      es == saturationVaporPressurePa(Tc)
      Density(pv) ==
        FAdd(FDiv(FMax(FSub(pressurePa, pv), Zero), FMul(Rd, T)), FDiv(pv, FMul(Rv, T)))
  IN  Density(FMul(FDiv(RHpercent, Num(100)), es))

dynamicViscosityAir(Tc) ==
  LET T == FAdd(Tc, F(27315, -2))
      mu0 == F(1716, -8)
      T0 == F(27315, -2)
      S == F(1104, -1)
  IN  FMul(FMul(mu0, FPow(FDiv(T, T0), F(15, -1))), FDiv(FAdd(T0, S), FAdd(T, S)))

haalandFrictionFactor(Re, eps_over_D) ==
  IF ~IsFinite(Re) \/ FLe(Re, Zero) THEN NaN
  ELSE IF FLt(Re, Num(2300)) THEN FDiv(Num(64), Re)
  ELSE LET A == FAdd(FPow(FDiv(eps_over_D, F(37, -1)), F(111, -2)), FDiv(F(69, -1), Re))
           InvSq(t) == FDiv(Num(1), FMul(t, t))
       IN  InvSq(FMul(F(-18, -1), FLog10(A)))

rectArea_m2_from_mm(w_mm, h_mm) ==
  FMax(Zero, FMul(FDiv(w_mm, Num(1000)), FDiv(h_mm, Num(1000))))

rectPerimeter_m_from_mm(w_mm, h_mm) ==
  FMul(Num(2), FAdd(FDiv(w_mm, Num(1000)), FDiv(h_mm, Num(1000))))

\* ROUGHNESS["Galvanised steel"], the material of the initial state
ROUGHNESS == F(15, -5)

\* the air state of the initial state: temperature 20, rh 50
Tn == Num(20)
RHn == Num(50)
p_atm == Num(101325)
rhoAir == moistAirDensity(p_atm, Tn, RHn)
muAir == dynamicViscosityAir(Tn)

\* Core rectangular duct calc, at the air state and material above
\* (the locals are computed in the order of the code, each from the ones before it)
calcRectNums(w_mm, h_mm, Q_m3s) ==
  LET eps == ROUGHNESS
      P == rectPerimeter_m_from_mm(w_mm, h_mm)
      Out(rho, mu, A, Dh, V, Re, f) ==
        [A |-> A, Dh |-> Dh, V |-> V, Re |-> Re, f |-> f,
         dp_per_m |-> IF FGt(Dh, Zero)
                        THEN FDiv(FMul(f, FMul(FMul(rho, V), V)), FMul(Num(2), Dh))
                        ELSE Inf,
         rho |-> rho, mu |-> mu,
         velocityPressure |-> FMul(FMul(FMul(F(5, -1), rho), V), V),
         eqDiameter |-> Dh]
      WithRe(rho, mu, A, Dh, V, Re) ==
        Out(rho, mu, A, Dh, V, Re, haalandFrictionFactor(Re, FDiv(eps, FMax(Dh, F(1, -9)))))
      WithDhV(rho, mu, A, Dh, V) ==
        WithRe(rho, mu, A, Dh, V, FDiv(FMul(FMul(rho, FAbs(V)), Dh), mu))
      WithA(rho, mu, A) ==
        WithDhV(rho, mu, A,
                IF FGt(A, Zero) THEN FDiv(FMul(Num(4), A), P) ELSE Zero,
                IF FGt(A, Zero) THEN FDiv(Q_m3s, A) ELSE Zero)
  IN  WithA(rhoAir, muAir, rectArea_m2_from_mm(w_mm, h_mm))

(***************************************************************************)
(* solveMissingDimension: the loop state on entry, one iteration, the      *)
(* value returned                                                          *)
(***************************************************************************)
MissingDimMaxIter == 60
NoBest == [some |-> FALSE, mid |-> Zero, dp |-> Zero]

\* the condition of line 257 without the check of the flow
solveMissingDimensionRejectsNoFlow(fixed_m, Q_m3s, target) ==
  IF FLe(fixed_m, Zero) THEN TRUE ELSE FLe(target, Zero)

\* line 257: the condition of the early return
solveMissingDimensionRejects(fixed_m, Q_m3s, target) ==
  IF FLe(fixed_m, Zero) THEN TRUE
  ELSE IF FLe(Q_m3s, Zero) THEN TRUE
  ELSE FLe(target, Zero)

\* lines 255-260: early (and done) is set when the function returns before the loop
solveMissingDimensionEnter(fixedIsWidth, fixedValueDisplay, Q_m3s, targetDpPaPerM) ==
  LET fixed_m == mmToM(safeNum(fixedValueDisplay, Zero))
      target == safeNum(targetDpPaPerM, Zero)
  IN  [fn |-> "solveMissingDimension", fixedIsWidth |-> fixedIsWidth,
       fixed_m |-> fixed_m, Q_m3s |-> Q_m3s, target |-> target,
       i |-> 0, lo |-> F(1, -4), hi |-> Num(5), best |-> NoBest,
       mid |-> Zero, dp |-> Zero, firstDp |-> Zero,
       early |-> solveMissingDimensionRejects(fixed_m, Q_m3s, target),
       done |-> solveMissingDimensionRejects(fixed_m, Q_m3s, target)]

\* lines 261-279: the body of the for loop, run once; mid and dp keep the trial, firstDp
\* the pressure drop of the first trial
solveMissingDimensionIter(l) ==
  LET w(mid) == IF l.fixedIsWidth THEN l.fixed_m ELSE mid
      h(mid) == IF l.fixedIsWidth THEN mid ELSE l.fixed_m
      calc(mid) == calcRectNums(mToMm(w(mid)), mToMm(h(mid)), l.Q_m3s)
      Body(mid, dp, first) ==
        IF ~IsFinite(dp)
          THEN [l EXCEPT !.done = TRUE, !.mid = mid, !.dp = dp, !.firstDp = first]
        ELSE [l EXCEPT !.lo = IF FGt(dp, l.target) THEN mid ELSE l.lo,
                       !.hi = IF FGt(dp, l.target) THEN l.hi ELSE mid,
                       !.best = [some |-> TRUE, mid |-> mid, dp |-> dp],
                       !.mid = mid,
                       !.dp = dp,
                       !.firstDp = first,
                       !.i = l.i + 1,
                       !.done = IF FLt(FDiv(FAbs(FSub(dp, l.target)),
                                            FMax(l.target, F(1, -6))),
                                       F(1, -4))
                                  THEN TRUE
                                  ELSE l.i + 1 >= MissingDimMaxIter]
      WithDp(mid, dp) == Body(mid, dp, IF l.i = 0 THEN dp ELSE l.firstDp)
      WithMid(mid) == WithDp(mid, calc(mid).dp_per_m)
  IN  WithMid(FMul(F(5, -1), FAdd(l.lo, l.hi)))

NoSolution == [some |-> FALSE, displayValueMm |-> Zero, dp |-> Zero]

\* lines 257, 280-281: the value returned; some = FALSE is null
solveMissingDimensionReturn(l) ==
  IF ~l.best.some THEN NoSolution
  ELSE [some |-> TRUE, displayValueMm |-> mToMm(l.best.mid), dp |-> l.best.dp]

(***************************************************************************)
(* solveMaxFlow                                                            *)
(***************************************************************************)
MaxFlowMaxIter == 80

\* lines 293-299: early is set when the function returns null before the loop
solveMaxFlowEnter(w_mm, h_mm, targetDpPaPerM) ==
  LET w == mmToM(safeNum(w_mm, Zero))
      h == mmToM(safeNum(h_mm, Zero))
      target == safeNum(targetDpPaPerM, Zero)
      early == IF FLe(w, Zero) THEN TRUE ELSE IF FLe(h, Zero) THEN TRUE ELSE FLe(target, Zero)
  IN  [fn |-> "solveMaxFlow", w |-> w, h |-> h, target |-> target,
       i |-> 0, lo |-> F(1, -6), hi |-> Num(10), bestQ |-> Zero,
       mid |-> Zero, dp |-> Zero, early |-> early, done |-> early]

\* the comparison of line 312 the other way round
solveMaxFlowTooHighInverted(dp, target) == FLt(dp, target)

\* line 312: the trial flow is too high
solveMaxFlowTooHigh(dp, target) == FGt(dp, target)

\* lines 300-318: the body of the for loop, run once; mid and dp keep the trial
solveMaxFlowIter(l) ==
  LET calc(mid) == calcRectNums(mToMm(l.w), mToMm(l.h), mid)
      Body(mid, dp) ==
        IF ~IsFinite(dp) THEN [l EXCEPT !.done = TRUE, !.mid = mid, !.dp = dp]
        ELSE [l EXCEPT !.hi = IF solveMaxFlowTooHigh(dp, l.target) THEN mid ELSE l.hi,
                       !.lo = IF solveMaxFlowTooHigh(dp, l.target) THEN l.lo ELSE mid,
                       !.bestQ = IF solveMaxFlowTooHigh(dp, l.target) THEN l.bestQ ELSE mid,
                       !.mid = mid,
                       !.dp = dp,
                       !.i = l.i + 1,
                       !.done = IF FLt(FDiv(FAbs(FSub(dp, l.target)),
                                            FMax(l.target, F(1, -6))),
                                       F(1, -4))
                                  THEN TRUE
                                  ELSE l.i + 1 >= MaxFlowMaxIter]
      WithMid(mid) == Body(mid, calc(mid).dp_per_m)
  IN  WithMid(FMul(F(5, -1), FAdd(l.lo, l.hi)))

\* lines 296, 319: the value returned
solveMaxFlowReturn(l) == IF l.early THEN Null ELSE l.bestQ

(***************************************************************************)
(* Component state (the useState and useRef cells of Ductulator)           *)
(***************************************************************************)
VARIABLES
  mode,          \* "pressureDrop", "fixedDim", "maxFlow" or "magic"
  liveMode,
  width, height, flowInput, velocity, targetDp,   \* the numbers of the last apply
  flowUnit,      \* "L/s", "m3/s" or "m3/h"
  bufWidth, bufHeight, bufFlowInput, bufVelocity, bufTargetDp,
                 \* the input buffers; a buffer is modelled by Number(text), which is
                 \* NaN for a text that is no number, and String(n) by n
  magicLocks,
  results,       \* the result record, NoResult for null
  stale,
  warnings,
  liveTimer,     \* liveTimer.current is not null
  timers,        \* number of pending window.setTimeout callbacks
  timerEnv,      \* what the callback of the timeout set last sees: the state of the
                 \* render that set it
  pc,            \* "idle", or the solver loop the running handler is in
  call,          \* the running handler's arguments and locals
  loc,           \* the running solver loop's locals
  ev,            \* the last event handled
  calls,         \* which of calcRectNums, solveMissingDimension, solveMaxFlow and
                 \* setResults the last handler run has called so far
  nev            \* number of user events so far

numbers == <<width, height, flowInput, velocity, targetDp>>
buffers == <<bufWidth, bufHeight, bufFlowInput, bufVelocity, bufTargetDp>>
vars == <<mode, liveMode, width, height, flowInput, velocity, targetDp, flowUnit,
          bufWidth, bufHeight, bufFlowInput, bufVelocity, bufTargetDp, magicLocks,
          results, stale, warnings, liveTimer, timers, timerEnv, pc, call, loc, ev, calls,
          nev>>

Modes == {"pressureDrop", "fixedDim", "maxFlow", "magic"}
FlowUnits == {"L/s", "m3/s", "m3/h"}
LockKeys == <<"flow", "width", "height", "velocity", "dp">>
NoLocks == [flow |-> FALSE, width |-> FALSE, height |-> FALSE, velocity |-> FALSE, dp |-> FALSE]
NoResult == [mode |-> "none"]
NoCall == [fn |-> "none"]

WarnHighVelocity == "Velocity high (>15 m/s) - check suitability"
WarnEitherOr == "Enter either Velocity OR Pressure Drop in Max Flow mode, not both."
WarnTooMany == "Too many locked fields - unlock one to allow solving."
WarnNeedWidth == "Not enough constraints - Enter duct width."
WarnNeedHeight == "Not enough constraints - Enter duct height."
WarnNeedFlowOrVelocity == "Not enough constraints - Enter flow rate or velocity."
WarnNeedMore == "Not enough constraints - Provide additional locked input."
WarnFailed == "Magic solver failed to converge - try different locks or starting values."

flowInputToM3s(val, unit) ==
  LET v == safeNum(val, Zero)
  IN  IF unit = "L/s" THEN lsToM3s(v)
      ELSE IF unit = "m3/h" THEN m3hToM3s(v)
      ELSE v

(***************************************************************************)
(* Rendering after a handler: the two effects that follow a state change.  *)
(* p holds the values the handler set (and the old ones for what it left). *)
(***************************************************************************)
\* lines 159-165: the buffers follow the numbers when a number changed
SyncedBuffers(p) ==
  IF <<p.width, p.height, p.flowInput, p.velocity, p.targetDp>> # numbers
    THEN <<p.width, p.height, p.flowInput, p.velocity, p.targetDp>>
    ELSE <<p.bufWidth, p.bufHeight, p.bufFlowInput, p.bufVelocity, p.bufTargetDp>>

\* lines 217-233: the dependencies of the input-change effect changed
InputsChanged(p) ==
  \/ SyncedBuffers(p) # buffers
  \/ p.flowUnit # flowUnit
  \/ p.mode # mode
  \/ p.liveMode # liveMode

\* the component state as a record, for a handler to update
Cur ==
  [mode |-> mode, liveMode |-> liveMode, width |-> width, height |-> height,
   flowInput |-> flowInput, velocity |-> velocity, targetDp |-> targetDp,
   flowUnit |-> flowUnit, bufWidth |-> bufWidth, bufHeight |-> bufHeight,
   bufFlowInput |-> bufFlowInput, bufVelocity |-> bufVelocity,
   bufTargetDp |-> bufTargetDp, magicLocks |-> magicLocks, results |-> results,
   stale |-> stale, warnings |-> warnings, liveTimer |-> liveTimer, timers |-> timers,
   timerEnv |-> timerEnv]

\* what applyBuffersToCalcAndSolve reads of the render it was created in
Closure(p) ==
  [mode |-> p.mode, flowUnit |-> p.flowUnit, flowInput |-> p.flowInput,
   bufWidth |-> p.bufWidth, bufHeight |-> p.bufHeight, bufFlowInput |-> p.bufFlowInput,
   bufVelocity |-> p.bufVelocity, bufTargetDp |-> p.bufTargetDp,
   magicLocks |-> p.magicLocks]

\* lines 207-214: clear the pending timeout, if any, and set a new one, whose callback
\* is the applyBuffersToCalcAndSolve of the render p
scheduleLiveSolve(p) ==
  [p EXCEPT !.liveTimer = TRUE,
            !.timers = IF p.liveTimer THEN p.timers ELSE p.timers + 1,
            !.timerEnv = Closure(p)]

\* lines 201-203, with the results of the render the effect runs in
markStale(p) ==
  IF ~p.liveMode /\ p.results # NoResult THEN [p EXCEPT !.stale = TRUE] ELSE p

\* lines 217-220
InputEffect(p) == IF p.liveMode THEN scheduleLiveSolve(p) ELSE markStale(p)

\* the component's cells take the values of r
Rendered(r) ==
  /\ mode' = r.mode
  /\ liveMode' = r.liveMode
  /\ width' = r.width
  /\ height' = r.height
  /\ flowInput' = r.flowInput
  /\ velocity' = r.velocity
  /\ targetDp' = r.targetDp
  /\ flowUnit' = r.flowUnit
  /\ bufWidth' = r.bufWidth
  /\ bufHeight' = r.bufHeight
  /\ bufFlowInput' = r.bufFlowInput
  /\ bufVelocity' = r.bufVelocity
  /\ bufTargetDp' = r.bufTargetDp
  /\ magicLocks' = r.magicLocks
  /\ results' = r.results
  /\ stale' = r.stale
  /\ warnings' = r.warnings
  /\ liveTimer' = r.liveTimer
  /\ timers' = r.timers
  /\ timerEnv' = r.timerEnv

\* the state after the handler's updates p are rendered and the effects have run
Render(p) ==
  LET Synced(b) == [p EXCEPT !.bufWidth = b[1], !.bufHeight = b[2], !.bufFlowInput = b[3],
                             !.bufVelocity = b[4], !.bufTargetDp = b[5]]
      Effects(q) == IF InputsChanged(p) THEN InputEffect(q) ELSE q
  IN  Rendered(Effects(Synced(SyncedBuffers(p))))

(***************************************************************************)
(* The magic search: residuals, one per-variable step, the end of a round  *)
(***************************************************************************)
MagicMaxIter == 200
SearchVars == <<"flow", "width", "height">>
stepFactors == [flow |-> F(11, -1), width |-> F(105, -2), height |-> F(105, -2)]

lockedCount(locked) == Cardinality({i \in 1..5 : locked[LockKeys[i]]})

\* lines 522-535: the residuals of the locked constraints, in key order, and their RMS
residuals(s, locked, targets) ==
  LET rel(v, t) == FDiv(FSub(v, t), FMax(t, F(1, -6)))
      res(calc) ==
        (IF locked.flow THEN <<rel(s.flow, targets.flow)>> ELSE <<>>)
        \o (IF locked.width THEN <<rel(s.width, targets.width)>> ELSE <<>>)
        \o (IF locked.height THEN <<rel(s.height, targets.height)>> ELSE <<>>)
        \o (IF locked.velocity THEN <<rel(calc.V, targets.velocity)>> ELSE <<>>)
        \o (IF locked.dp THEN <<rel(calc.dp_per_m, targets.dp)>> ELSE <<>>)
      rms(r) ==
        LET sum[i \in 0..Len(r)] == IF i = 0 THEN Zero ELSE FAdd(sum[i - 1], FMul(r[i], r[i]))
        IN  IF Len(r) # 0 THEN FSqrt(FDiv(sum[Len(r)], Num(Len(r)))) ELSE Zero
      Out(calc, r) == [res |-> r, rms |-> rms(r), calc |-> calc]
      WithCalc(calc) == Out(calc, res(calc))
  IN  WithCalc(calcRectNums(s.width, s.height, s.flow))

\* lines 550-554: the trial state for one direction
magicTrial(base, varName, dir) ==
  LET trial == [base EXCEPT ![varName] = FMul(base[varName], dir)]
  IN  [width |-> FMax(trial.width, Num(10)),
       height |-> FMax(trial.height, Num(10)),
       flow |-> FMax(trial.flow, F(1, -6))]

\* line 556: a trial replaces the local best when its rms is lower
magicBetter(rms, bestLocal) == FLt(rms, bestLocal.rms)

\* lines 547-558: the value the search keeps for an unlocked variable
magicBestLocal(base, varName, locked, targets) ==
  LET Try(trial, rms, bestLocal) ==
        IF magicBetter(rms, bestLocal) THEN [val |-> trial[varName], rms |-> rms]
        ELSE bestLocal
      Dir(trial, bestLocal) == Try(trial, residuals(trial, locked, targets).rms, bestLocal)
  IN  Dir(magicTrial(base, varName, stepFactors[varName]),
          Dir(magicTrial(base, varName, FDiv(Num(1), stepFactors[varName])),
              [val |-> base[varName], rms |-> Inf]))

\* lines 508-520, 537: the targets, the initial state and the loop variables
magicEnter(locked, flowTarget, w_mm, h_mm, velocityVal, targetDpVal) ==
  LET targets == [flow |-> flowTarget, width |-> safeNum(w_mm, Zero),
                  height |-> safeNum(h_mm, Zero), velocity |-> safeNum(velocityVal, Zero),
                  dp |-> safeNum(targetDpVal, Zero)]
  IN  [fn |-> "magic", locked |-> locked, targets |-> targets,
       state |-> [flow |-> OrElse(targets.flow, F(1, -1)),
                  width |-> OrElse(targets.width, Num(200)),
                  height |-> OrElse(targets.height, Num(200))],
       best |-> [some |-> FALSE, state |-> [flow |-> Zero, width |-> Zero, height |-> Zero],
                 rms |-> Zero],
       iter |-> 0, k |-> 1, done |-> FALSE]

\* lines 540-559: the step of the k-th search variable
magicVarStep(l) ==
  LET varName == SearchVars[l.k]
  IN  IF l.locked[varName] THEN [l EXCEPT !.k = l.k + 1]
      ELSE [l EXCEPT !.k = l.k + 1,
                     !.state[varName] =
                        magicBestLocal(l.state, varName, l.locked, l.targets).val]

\* line 561: the state of this round replaces the best one
magicImproves(cur, best) == ~best.some \/ FLt(cur.rms, best.rms)

\* lines 560-563: the end of a round
magicRoundEnd(l) ==
  LET Best(cur) == IF magicImproves(cur, l.best)
                     THEN [some |-> TRUE, state |-> l.state, rms |-> cur.rms]
                     ELSE l.best
      Out(best) == [l EXCEPT !.best = best, !.iter = l.iter + 1, !.k = 1,
                             !.done = IF FLt(best.rms, F(1, -4)) THEN TRUE
                                      ELSE l.iter + 1 >= MagicMaxIter]
  IN  Out(Best(residuals(l.state, l.locked, l.targets)))

(***************************************************************************)
(* applyBuffersToCalcAndSolve and runSolverWithValues. c is the render the *)
(* handler was created in (Closure), a its arguments, p the state with the *)
(* updates made so far.                                                    *)
(***************************************************************************)
\* lines 325-329
Parsed(c) ==
  [w_mm |-> safeNum(c.bufWidth, Zero), h_mm |-> safeNum(c.bufHeight, Zero),
   flowInputVal |-> safeNum(c.bufFlowInput, Zero),
   velocityVal |-> safeNum(c.bufVelocity, Zero),
   targetDpVal |-> safeNum(c.bufTargetDp, Zero)]

\* lines 324, 331-335
Applied(a) ==
  [Cur EXCEPT !.warnings = <<>>, !.width = a.w_mm, !.height = a.h_mm,
              !.flowInput = a.flowInputVal, !.velocity = a.velocityVal,
              !.targetDp = a.targetDpVal]

\* a handler run that ended: the updates, and the functions it called
Ended(p, called) == [pc |-> "idle", post |-> p, loc |-> NoCall, ctx |-> NoCall, calls |-> called]
\* a handler run that entered a solver loop
Entered(name, p, l, ctx, called) ==
  [pc |-> name, post |-> p, loc |-> l, ctx |-> ctx, calls |-> called]

\* line 361
solveQ(c, a) == flowInputToM3s(a.flowInputVal, c.flowUnit)

\* lines 363-380
runPressureDrop(c, a, p) ==
  LET Q == solveQ(c, a)
      r(calc) ==
        [mode |-> "pressureDrop", width_mm |-> a.w_mm, height_mm |-> a.h_mm,
         flow_m3s |-> Q, eqDiameter_m |-> calc.eqDiameter, averageVelocity |-> calc.V,
         effectiveVelocity |-> calc.V, dp_per_m |-> calc.dp_per_m,
         velocityPressure |-> calc.velocityPressure]
      Out(calc) ==
        Ended([p EXCEPT !.results = r(calc), !.stale = FALSE,
                        !.warnings = IF FGt(calc.V, Num(15))
                                       THEN Append(p.warnings, WarnHighVelocity)
                                       ELSE p.warnings],
              {"calcRectNums", "setResults"})
  IN  Out(calcRectNums(a.w_mm, a.h_mm, Q))

\* line 385
fixedDimQv(Q, needV, w_mm, h_mm) ==
  IF FGt(Q, Zero) THEN Q
  ELSE IF FGt(needV, Zero) THEN FMul(needV, rectArea_m2_from_mm(w_mm, h_mm))
  ELSE Zero

\* lines 389, 410: which dimension is missing: "height", "width" or "none"
fixedDimMissing(w_mm, h_mm) ==
  IF FGt(w_mm, Zero) /\ (~Truthy(h_mm) \/ FLe(h_mm, Zero)) THEN "height"
  ELSE IF FGt(h_mm, Zero) /\ (~Truthy(w_mm) \/ FLe(w_mm, Zero)) THEN "width"
  ELSE "none"

\* lines 390-394, 411-415: the candidate from the velocity target, Null when there is none
fixedDimFromV(needV, Qv, fixed_mm) ==
  IF FGt(needV, Zero) /\ FGt(Qv, Zero)
    THEN LET Aneed == FDiv(Qv, needV) IN mToMm(FDiv(Aneed, mmToM(fixed_mm)))
    ELSE Null

\* the pick of lines 405-408 with Math.min for Math.max
fixedDimPickSmaller(fromV, fromDp) ==
  IF fromV = Null /\ fromDp = Null THEN Null
  ELSE IF fromV = Null THEN safeNum(fromDp, Zero)
  ELSE IF fromDp = Null THEN safeNum(fromV, Zero)
  ELSE IF FLt(safeNum(fromV, Zero), safeNum(fromDp, Zero)) THEN safeNum(fromV, Zero)
  ELSE safeNum(fromDp, Zero)

\* lines 405-408, 426-429: Math.max over the candidates that exist, Null when none does
fixedDimPick(fromV, fromDp) ==
  IF fromV = Null /\ fromDp = Null THEN Null
  ELSE IF fromV = Null THEN safeNum(fromDp, Zero)
  ELSE IF fromDp = Null THEN safeNum(fromV, Zero)
  ELSE FMax(safeNum(fromV, Zero), safeNum(fromDp, Zero))

\* lines 409, 430-442: the end of the fixedDim branch, with the two candidates
fixedDimFinish(a, p, missing, Qv, fromV, fromDp) ==
  LET pick == IF missing = "none" THEN Null ELSE fixedDimPick(fromV, fromDp)
      solvedW == IF missing = "width" /\ Truthy(pick) THEN pick ELSE a.w_mm
      solvedH == IF missing = "height" /\ Truthy(pick) THEN pick ELSE a.h_mm
      calc == calcRectNums(solvedW, solvedH, Qv)
  IN  [p EXCEPT !.results = [mode |-> "fixedDim", width_mm |-> solvedW,
                             height_mm |-> solvedH, flow_m3s |-> Qv,
                             dp_per_m |-> calc.dp_per_m],
                !.stale = FALSE]

\* lines 382-404, 410-425: the fixedDim branch up to the call of solveMissingDimension
runFixedDim(c, a, p) ==
  LET Q == solveQ(c, a)
      needDp == safeNum(a.targetDpVal, Zero)
      needV == safeNum(a.velocityVal, Zero)
      Qv == fixedDimQv(Q, needV, a.w_mm, a.h_mm)
      missing == fixedDimMissing(a.w_mm, a.h_mm)
      fixed_mm == IF missing = "height" THEN a.w_mm ELSE a.h_mm
      fromV == IF missing = "none" THEN Null ELSE fixedDimFromV(needV, Qv, fixed_mm)
      callsSolver == missing # "none" /\ FGt(needDp, Zero) /\ FGt(Qv, Zero)
      l == solveMissingDimensionEnter(missing = "height", fixed_mm, Qv, needDp)
      ctx == [fn |-> "fixedDim", missing |-> missing, Qv |-> Qv, fromV |-> fromV]
  IN  IF ~callsSolver
        THEN Ended(fixedDimFinish(a, p, missing, Qv, fromV, Null),
                   {"calcRectNums", "setResults"})
        ELSE Entered("solveMissingDimension", p, l, ctx, {"solveMissingDimension"})

\* lines 469-482: the end of the maxFlow branch, with solveMaxFlow's value
maxFlowFinish(a, p, maxQ) ==
  LET calc == calcRectNums(a.w_mm, a.h_mm, OrElse(maxQ, Zero))
  IN  [p EXCEPT !.results = [mode |-> "maxFlow", width_mm |-> a.w_mm, height_mm |-> a.h_mm,
                             maxFlow_m3s |-> maxQ, velocity |-> calc.V,
                             dp_target |-> safeNum(a.targetDpVal, Zero)],
                !.stale = FALSE]

\* the condition of line 448 with the velocity alone
maxFlowConflictVelocityOnly(needV, needDp) == FGt(needV, Zero) /\ ~FGt(needDp, Zero)

\* line 448: both targets are given
maxFlowConflict(needV, needDp) == FGt(needV, Zero) /\ FGt(needDp, Zero)

\* lines 445-483
runMaxFlow(c, a, p) ==
  LET needDp == safeNum(a.targetDpVal, Zero)
      needV == safeNum(a.velocityVal, Zero)
      A == rectArea_m2_from_mm(a.w_mm, a.h_mm)
      Qcalc == FMul(needV, A)
      calc == calcRectNums(a.w_mm, a.h_mm, Qcalc)
      l == solveMaxFlowEnter(a.w_mm, a.h_mm, needDp)
  IN  IF maxFlowConflict(needV, needDp)
        THEN Ended([p EXCEPT !.warnings = <<WarnEitherOr>>], {})
      ELSE IF FGt(needV, Zero)
        THEN Ended([p EXCEPT !.results = [mode |-> "maxFlow", width_mm |-> a.w_mm,
                                          height_mm |-> a.h_mm, maxFlow_m3s |-> Qcalc,
                                          velocity |-> needV, dp_per_m |-> calc.dp_per_m],
                             !.stale = FALSE],
                   {"calcRectNums", "setResults"})
      ELSE IF FGt(needDp, Zero)
        THEN Entered("solveMaxFlow", p, l, [fn |-> "maxFlow"], {"solveMaxFlow"})
      ELSE Ended(p, {})

\* the suggestion of lines 499-504 with the height asked for first
magicSuggestionHeightFirst(locked) ==
  IF ~locked.height THEN WarnNeedHeight
  ELSE IF ~locked.width THEN WarnNeedWidth
  ELSE IF ~locked.flow /\ ~locked.velocity THEN WarnNeedFlowOrVelocity
  ELSE WarnNeedMore

\* lines 499-504: the warning with the suggestion
magicSuggestion(locked) ==
  IF ~locked.width THEN WarnNeedWidth
  ELSE IF ~locked.height THEN WarnNeedHeight
  ELSE IF ~locked.flow /\ ~locked.velocity THEN WarnNeedFlowOrVelocity
  ELSE WarnNeedMore

\* line 509: the flow target is read from the flowInput of the handler's render
magicFlowTarget(c, a) == flowInputToM3s(c.flowInput, c.flowUnit)

\* lines 565-583: the end of the magic branch
magicFinish(p, best) ==
  IF best.some
    THEN LET Out(calc) ==
               [p EXCEPT !.width = best.state.width, !.height = best.state.height,
                         !.flowInput = best.state.flow,
                         !.results = [mode |-> "magic", width_mm |-> best.state.width,
                                      height_mm |-> best.state.height,
                                      flow_m3s |-> best.state.flow, velocity |-> calc.V,
                                      dp_per_m |-> calc.dp_per_m],
                         !.stale = FALSE]
         IN  Out(calcRectNums(best.state.width, best.state.height, best.state.flow))
    ELSE [p EXCEPT !.warnings = <<WarnFailed>>]

\* the condition of line 494 with 5 for 4
magicTooManyAllLocked(n) == n >= 5

\* line 494
magicTooMany(n) == n >= 4

\* line 498
magicNotEnough(n) == n < 2

\* lines 485-520
runMagic(c, a, p) ==
  LET locked == c.magicLocks
      n == lockedCount(locked)
  IN  IF magicTooMany(n) THEN Ended([p EXCEPT !.warnings = <<WarnTooMany>>], {})
      ELSE IF magicNotEnough(n)
        THEN Ended([p EXCEPT !.warnings = <<magicSuggestion(locked)>>], {})
      ELSE Entered("magic", p,
                   magicEnter(locked, magicFlowTarget(c, a), a.w_mm, a.h_mm,
                              a.velocityVal, a.targetDpVal),
                   [fn |-> "magic"], {})

\* lines 346-585
runSolverWithValues(c, a, p) ==
  IF c.mode = "pressureDrop" THEN runPressureDrop(c, a, p)
  ELSE IF c.mode = "fixedDim" THEN runFixedDim(c, a, p)
  ELSE IF c.mode = "maxFlow" THEN runMaxFlow(c, a, p)
  ELSE runMagic(c, a, p)

\* lines 323-344
applyBuffersToCalcAndSolve(c) == runSolverWithValues(c, Parsed(c), Applied(Parsed(c)))

(***************************************************************************)
(* Actions                                                                 *)
(***************************************************************************)
MaxEvents == 3

Idle == pc = "idle"
CanAct == Idle /\ nev < MaxEvents

NoHandler == /\ pc' = "idle"
             /\ call' = NoCall
             /\ loc' = NoCall
             /\ calls' = {}

\* a handler run starts: r is what applyBuffersToCalcAndSolve did up to its end or up to
\* the first solver loop; the state updates are rendered when the handler has returned
Begin(r, c, fromTimer) ==
  /\ calls' = r.calls
  /\ loc' = r.loc
  /\ pc' = r.pc
  /\ IF r.pc = "idle"
       THEN /\ call' = NoCall
            /\ Render(IF fromTimer
                        THEN [r.post EXCEPT !.liveTimer = FALSE, !.timers = timers - 1]
                        ELSE r.post)
       ELSE /\ call' = [fn |-> "applyBuffersToCalcAndSolve", env |-> c, a |-> Parsed(c),
                        ctx |-> r.ctx, fromTimer |-> fromTimer]
            /\ timers' = IF fromTimer THEN timers - 1 ELSE timers
            /\ UNCHANGED <<mode, liveMode, width, height, flowInput, velocity, targetDp,
                           flowUnit, bufWidth, bufHeight, bufFlowInput, bufVelocity,
                           bufTargetDp, magicLocks, results, stale, warnings, liveTimer,
                           timerEnv>>

\* the handler returns after a solver loop: its updates p are rendered
End(p) ==
  /\ pc' = "idle"
  /\ call' = NoCall
  /\ loc' = NoCall
  /\ Render(IF call.fromTimer THEN [p EXCEPT !.liveTimer = FALSE] ELSE p)

\* the Solve button, or Enter in an input (lines 236-241, 842)
Solve ==
  /\ CanAct
  /\ nev' = nev + 1
  /\ ev' = "solve"
  /\ Begin(applyBuffersToCalcAndSolve(Closure(Cur)), Closure(Cur), FALSE)

\* the live-mode timeout fires (lines 210-213)
TimerFire ==
  /\ CanAct
  /\ timers > 0
  /\ nev' = nev + 1
  /\ ev' = "timer"
  /\ Begin(applyBuffersToCalcAndSolve(timerEnv), timerEnv, TRUE)

InLoop(name) == pc = name /\ ~loc.done

\* one iteration of solveMissingDimension's loop
MissingDimStep ==
  /\ InLoop("solveMissingDimension")
  /\ loc' = solveMissingDimensionIter(loc)
  /\ calls' = calls \cup {"calcRectNums"}
  /\ ev' = "step"
  /\ UNCHANGED <<mode, liveMode, width, height, flowInput, velocity, targetDp, flowUnit,
                 bufWidth, bufHeight, bufFlowInput, bufVelocity, bufTargetDp, magicLocks,
                 results, stale, warnings, liveTimer, timers, timerEnv, pc, call, nev>>

\* solveMissingDimension returns
MissingDimReturn ==
  /\ pc = "solveMissingDimension"
  /\ loc.done
  /\ pc' = "solveMissingDimension:returned"
  /\ loc' = [fn |-> "solveMissingDimension", in |-> loc, ret |-> solveMissingDimensionReturn(loc)]
  /\ ev' = "return"
  /\ UNCHANGED <<mode, liveMode, width, height, flowInput, velocity, targetDp, flowUnit,
                 bufWidth, bufHeight, bufFlowInput, bufVelocity, bufTargetDp, magicLocks,
                 results, stale, warnings, liveTimer, timers, timerEnv, call, calls, nev>>

\* the fixedDim branch goes on after solveMissingDimension (lines 403-442)
FixedDimResume ==
  /\ pc = "solveMissingDimension:returned"
  /\ call.fn = "applyBuffersToCalcAndSolve"
  /\ LET fromDp == IF loc.ret.some THEN loc.ret.displayValueMm ELSE Null
     IN  End(fixedDimFinish(call.a, Applied(call.a), call.ctx.missing, call.ctx.Qv,
                            call.ctx.fromV, fromDp))
  /\ calls' = calls \cup {"calcRectNums", "setResults"}
  /\ ev' = "solved"
  /\ UNCHANGED nev

\* one iteration of solveMaxFlow's loop
MaxFlowStep ==
  /\ InLoop("solveMaxFlow")
  /\ loc' = solveMaxFlowIter(loc)
  /\ calls' = calls \cup {"calcRectNums"}
  /\ ev' = "step"
  /\ UNCHANGED <<mode, liveMode, width, height, flowInput, velocity, targetDp, flowUnit,
                 bufWidth, bufHeight, bufFlowInput, bufVelocity, bufTargetDp, magicLocks,
                 results, stale, warnings, liveTimer, timers, timerEnv, pc, call, nev>>

\* solveMaxFlow returns
MaxFlowReturn ==
  /\ pc = "solveMaxFlow"
  /\ loc.done
  /\ pc' = "solveMaxFlow:returned"
  /\ loc' = [fn |-> "solveMaxFlow", in |-> loc, ret |-> solveMaxFlowReturn(loc)]
  /\ ev' = "return"
  /\ UNCHANGED <<mode, liveMode, width, height, flowInput, velocity, targetDp, flowUnit,
                 bufWidth, bufHeight, bufFlowInput, bufVelocity, bufTargetDp, magicLocks,
                 results, stale, warnings, liveTimer, timers, timerEnv, call, calls, nev>>

\* the maxFlow branch goes on after solveMaxFlow (lines 470-481)
MaxFlowResume ==
  /\ pc = "solveMaxFlow:returned"
  /\ call.fn = "applyBuffersToCalcAndSolve"
  /\ End(maxFlowFinish(call.a, Applied(call.a), loc.ret))
  /\ calls' = calls \cup {"calcRectNums", "setResults"}
  /\ ev' = "solved"
  /\ UNCHANGED nev

\* the step of one search variable in a round of the magic search
MagicVarStep ==
  /\ InLoop("magic")
  /\ loc.k <= 3
  /\ loc' = magicVarStep(loc)
  /\ calls' = IF loc.locked[SearchVars[loc.k]] THEN calls ELSE calls \cup {"calcRectNums"}
  /\ ev' = "step"
  /\ UNCHANGED <<mode, liveMode, width, height, flowInput, velocity, targetDp, flowUnit,
                 bufWidth, bufHeight, bufFlowInput, bufVelocity, bufTargetDp, magicLocks,
                 results, stale, warnings, liveTimer, timers, timerEnv, pc, call, nev>>

\* the end of a round of the magic search
MagicRoundEnd ==
  /\ InLoop("magic")
  /\ loc.k = 4
  /\ loc' = magicRoundEnd(loc)
  /\ calls' = calls \cup {"calcRectNums"}
  /\ ev' = "round"
  /\ UNCHANGED <<mode, liveMode, width, height, flowInput, velocity, targetDp, flowUnit,
                 bufWidth, bufHeight, bufFlowInput, bufVelocity, bufTargetDp, magicLocks,
                 results, stale, warnings, liveTimer, timers, timerEnv, pc, call, nev>>

\* the magic branch goes on after the search loop (lines 565-583)
MagicResume ==
  /\ pc = "magic"
  /\ loc.done
  /\ End(magicFinish(Applied(call.a), loc.best))
  /\ calls' = IF loc.best.some THEN calls \cup {"calcRectNums", "setResults"} ELSE calls
  /\ ev' = "solved"
  /\ UNCHANGED nev

UserEvent(name, p) ==
  /\ CanAct
  /\ nev' = nev + 1
  /\ ev' = name
  /\ NoHandler
  /\ Render(p)

\* typing into an input: the onChange handlers of lines 751-755, 766-770, 782-786,
\* 815-819, 830-834; field is the buffer's name
EditBuf(field, v) ==
  /\ Cur[field] # v
  /\ UserEvent("edit", IF liveMode
                         THEN [scheduleLiveSolve(Cur) EXCEPT ![field] = v]
                         ELSE [Cur EXCEPT ![field] = v, !.stale = TRUE])

\* choosing a flow unit (lines 792-796)
SetFlowUnit(u) ==
  /\ u # flowUnit
  /\ UserEvent("unit", IF liveMode
                         THEN [scheduleLiveSolve(Cur) EXCEPT !.flowUnit = u]
                         ELSE [Cur EXCEPT !.flowUnit = u, !.stale = TRUE])

\* choosing a mode tab (lines 729-732)
SetMode(m) ==
  /\ m # mode
  /\ UserEvent("mode", [Cur EXCEPT !.mode = m, !.stale = IF liveMode THEN stale ELSE TRUE])

\* the live mode switch (line 642)
SetLiveMode(b) ==
  /\ b # liveMode
  /\ UserEvent("live", [Cur EXCEPT !.liveMode = b])

\* a lock checkbox, shown in magic mode (lines 871, 890-894)
ToggleLock(key) ==
  /\ mode = "magic"
  /\ UserEvent("lock", [Cur EXCEPT !.magicLocks[key] = ~magicLocks[key]])

\* lines 588-598
handleReset ==
  UserEvent("reset", [Cur EXCEPT !.width = Num(200), !.height = Num(200),
                                 !.flowInput = Num(100), !.velocity = Zero,
                                 !.targetDp = Num(1), !.results = NoResult,
                                 !.stale = FALSE, !.warnings = <<>>,
                                 !.magicLocks = NoLocks])

(***************************************************************************)
(* Initial states                                                          *)
(***************************************************************************)
\* the component after mounting (lines 101-137, and the effect of lines 148-156, which
\* sets stale), with what the user has since chosen and typed, none of which changes
\* the numbers, the results or the warnings: mode m, flow unit u, locks lk, buffers b
Typed(m, u, lk, b) ==
  /\ mode = m
  /\ liveMode = FALSE
  /\ width = Num(200)
  /\ height = Num(200)
  /\ flowInput = Num(100)
  /\ velocity = Zero
  /\ targetDp = Num(1)
  /\ flowUnit = u
  /\ bufWidth = b[1]
  /\ bufHeight = b[2]
  /\ bufFlowInput = b[3]
  /\ bufVelocity = b[4]
  /\ bufTargetDp = b[5]
  /\ magicLocks = lk
  /\ results = NoResult
  /\ stale = TRUE
  /\ warnings = <<>>
  /\ liveTimer = FALSE
  /\ timers = 0
  /\ timerEnv = NoCall
  /\ ev = "init"
  /\ nev = 0

Mounted == Typed("pressureDrop", "L/s", NoLocks, <<Num(200), Num(200), Num(100), Zero, Num(1)>>)

AtRest ==
  /\ pc = "idle"
  /\ call = NoCall
  /\ loc = NoCall
  /\ calls = {}

\* a direct call of a solver function, with the loop state l on entry
Direct(name, l) ==
  /\ Mounted
  /\ pc = name
  /\ call = [fn |-> "direct"]
  /\ loc = l
  /\ calls = {name}

(***************************************************************************)
(* solveMaxFlow called with widths, heights and targets of every kind      *)
(***************************************************************************)
MaxFlowWidths == {Num(200), Num(50), Zero, Num(-100), F(1, -160)}
MaxFlowHeights == {Num(200), Num(1000), Zero, F(1, -160)}
MaxFlowTargets == {Num(1), F(5, -1), Num(20), Zero, Num(-1), NaN}

InitSolveMaxFlow ==
  \E w \in MaxFlowWidths, h \in MaxFlowHeights, t \in MaxFlowTargets :
    Direct("solveMaxFlow", solveMaxFlowEnter(w, h, t))

NextSolveMaxFlow == MaxFlowStep \/ MaxFlowReturn

SpecSolveMaxFlow == InitSolveMaxFlow /\ [][NextSolveMaxFlow]_vars

\* the pressure drop the evaluator gives for the flow q in the duct of the loop state l
maxFlowDp(l, q) == calcRectNums(mToMm(l.w), mToMm(l.h), q).dp_per_m

\* solveMaxFlow failed: a precondition is violated, or the loop ended on a non-finite
\* evaluation before any feasible flow was found
solveMaxFlowFailed(l) ==
  IF l.early THEN TRUE ELSE l.done /\ ~IsFinite(l.dp) /\ l.bestQ = Zero

\* C9: solveMaxFlow returns the numeric flow 0 on every failure: when a precondition
\* is violated (width <= 0, height <= 0 or target <= 0) and when no feasible flow was
\* found before the first non-finite evaluation.
C9_ZeroOnEveryFailure ==
  (pc = "solveMaxFlow:returned" /\ solveMaxFlowFailed(loc.in)) => loc.ret = Zero

\* solveMaxFlow has returned after a violated precondition
C9_PreconditionViolated == pc = "solveMaxFlow:returned" /\ loc.in.early

\* C10: at every iteration of solveMaxFlow, bestQ is either 0 or a trial flow in
\* [1e-6, 10] whose evaluated pressure drop was <= target, bestQ equals the lower bound
\* lo whenever it is non-zero, and 1e-6 <= lo <= hi <= 10; a non-zero returned flow is
\* never a flow whose pressure drop exceeds the target.
C10_BestQFeasible ==
  /\ (pc = "solveMaxFlow" /\ ~loc.early) =>
        /\ \/ loc.bestQ = Zero
           \/ /\ FLe(F(1, -6), loc.bestQ)
              /\ FLe(loc.bestQ, Num(10))
              /\ FLe(maxFlowDp(loc, loc.bestQ), loc.target)
        /\ loc.bestQ # Zero => loc.bestQ = loc.lo
        /\ FLe(F(1, -6), loc.lo)
        /\ FLe(loc.lo, loc.hi)
        /\ FLe(loc.hi, Num(10))
  /\ (pc = "solveMaxFlow:returned" /\ loc.ret # Null /\ loc.ret # Zero) =>
        FLe(maxFlowDp(loc.in, loc.ret), loc.in.target)

\* the loop has narrowed the bracket from both ends and holds a feasible flow
C10_BracketNarrowed ==
  /\ pc = "solveMaxFlow"
  /\ loc.i >= 3
  /\ loc.bestQ # Zero
  /\ loc.hi # Num(10)
  /\ loc.lo # F(1, -6)

(***************************************************************************)
(* solveMissingDimension called with dimensions, flows and targets of      *)
(* every kind                                                              *)
(***************************************************************************)
MissingDimFixed == {Num(200), Num(1000), Zero, Num(-100), NaN}
MissingDimFlows == {F(1, -1), Num(2), Zero, Num(-1), NaN, Inf, F(1, 150)}
MissingDimTargets == {Num(1), Num(20), Zero, Num(-1), NaN, F(17, 307)}

InitSolveMissingDimension ==
  \E fixedIsWidth \in BOOLEAN, fixed \in MissingDimFixed, Q \in MissingDimFlows,
     t \in MissingDimTargets :
    Direct("solveMissingDimension", solveMissingDimensionEnter(fixedIsWidth, fixed, Q, t))

NextSolveMissingDimension == MissingDimStep \/ MissingDimReturn

SpecSolveMissingDimension == InitSolveMissingDimension /\ [][NextSolveMissingDimension]_vars

\* the first bisection trial gave a non-finite pressure drop
missingDimFirstTrialNonFinite(l) == ~l.early /\ ~IsFinite(l.firstDp)

\* C8: solveMissingDimension returns 'no solution' (null) exactly when the fixed
\* dimension <= 0, or flow <= 0, or target <= 0, or the first bisection trial yields a
\* non-finite pressure drop; in every other case it returns the last trial dimension
\* that produced a finite pressure drop together with that pressure drop.
C8_NoSolutionExactlyWhen ==
  /\ [](pc = "solveMissingDimension:returned" =>
          /\ ~loc.ret.some <=>
                \/ FLe(loc.in.fixed_m, Zero)
                \/ FLe(loc.in.Q_m3s, Zero)
                \/ FLe(loc.in.target, Zero)
                \/ missingDimFirstTrialNonFinite(loc.in)
          /\ loc.ret.some =>
                /\ loc.ret.displayValueMm = mToMm(loc.in.best.mid)
                /\ loc.ret.dp = loc.in.best.dp
                /\ IsFinite(loc.ret.dp)
                /\ IsFinite(loc.in.dp) => loc.in.best.mid = loc.in.mid)
  /\ [][(pc = "solveMissingDimension" /\ pc' = "solveMissingDimension") =>
          IF IsFinite(loc'.dp)
            THEN loc'.best = [some |-> TRUE, mid |-> loc'.mid, dp |-> loc'.dp]
            ELSE loc'.best = loc.best]_vars

\* the call returned a dimension after a later trial gave a non-finite pressure drop
C8_LastFiniteTrialReturned ==
  /\ pc = "solveMissingDimension:returned"
  /\ loc.ret.some
  /\ ~IsFinite(loc.in.dp)
  /\ loc.in.i >= 2

(***************************************************************************)
(* Max-flow mode: the user types velocity and pressure-drop targets and    *)
(* solves                                                                  *)
(***************************************************************************)
MaxFlowModeWidths == {Num(200), Zero}
MaxFlowModeVelocities == {Zero, Num(5)}
MaxFlowModeTargets == {Zero, Num(1)}

InitMaxFlow ==
  /\ \E w \in MaxFlowModeWidths, v \in MaxFlowModeVelocities, t \in MaxFlowModeTargets :
       Typed("maxFlow", "L/s", NoLocks, <<w, Num(200), Num(100), v, t>>)
  /\ AtRest

EditVelocity == \E v \in MaxFlowModeVelocities : EditBuf("bufVelocity", v)
EditTargetDp == \E t \in MaxFlowModeTargets : EditBuf("bufTargetDp", t)

NextMaxFlow ==
  \/ Solve
  \/ EditVelocity
  \/ EditTargetDp
  \/ MaxFlowStep
  \/ MaxFlowReturn
  \/ MaxFlowResume

SpecMaxFlow == InitMaxFlow /\ [][NextMaxFlow]_vars

\* a solve invocation ends with this step
SolveEnds == pc' = "idle" /\ (ev' = "solve" \/ ev' = "solved")

\* the targets the solve that starts in this state reads from the input fields
needV == safeNum(Parsed(Closure(Cur)).velocityVal, Zero)
needDp == safeNum(Parsed(Closure(Cur)).targetDpVal, Zero)

\* C4: in max-flow mode, when both target velocity > 0 and target pressure drop > 0
\* are given, the solve sets the 'either Velocity OR Pressure Drop' warning, calls
\* neither the evaluator nor solveMaxFlow, and leaves the previous results and the
\* stale flag unchanged.
C4_ConflictWarnsOnly ==
  [][(ev' = "solve" /\ mode = "maxFlow" /\ FGt(needV, Zero) /\ FGt(needDp, Zero)) =>
       /\ warnings' = <<WarnEitherOr>>
       /\ pc' = "idle"
       /\ calls' = {}
       /\ results' = results
       /\ stale' = stale]_vars

\* a solve with both targets given has ended while an earlier result is shown
C4_ConflictAfterResult ==
  /\ ev = "solve"
  /\ pc = "idle"
  /\ mode = "maxFlow"
  /\ warnings = <<WarnEitherOr>>
  /\ results # NoResult
  /\ stale

\* C5: every solve invocation, in every mode and for every combination of inputs
\* (including max-flow mode with neither a velocity target nor a pressure-drop target
\* given), finishes having either stored a new result record or reported at least one
\* warning.
C5_ResultOrWarning ==
  [][SolveEnds => ("setResults" \in calls' \/ warnings' # <<>>)]_vars

(***************************************************************************)
(* Solve-one-dimension mode: the user types dimensions, flow and targets   *)
(* and solves                                                              *)
(***************************************************************************)
FixedDimWidths == {Num(300), Zero}
FixedDimHeights == {Num(200), Zero}
FixedDimFlows == {Num(100), Zero}
FixedDimVelocities == {Zero, Num(1), Num(5)}
FixedDimTargets == {Zero, Num(1)}

InitFixedDim ==
  /\ \E w \in FixedDimWidths, h \in FixedDimHeights, q \in FixedDimFlows,
        v \in FixedDimVelocities, t \in FixedDimTargets :
       Typed("fixedDim", "L/s", NoLocks, <<w, h, q, v, t>>)
  /\ AtRest

NextFixedDim ==
  \/ Solve
  \/ MissingDimStep
  \/ MissingDimReturn
  \/ FixedDimResume

SpecFixedDim == InitFixedDim /\ [][NextFixedDim]_vars

\* what the solve that starts (or is running) in this state reads from the input fields
givenW == Parsed(Closure(Cur)).w_mm
givenH == Parsed(Closure(Cur)).h_mm
statedQ == solveQ(Closure(Cur), Parsed(Closure(Cur)))
givenQv == fixedDimQv(statedQ, needV, givenW, givenH)
onlyWidthGiven == FGt(givenW, Zero) /\ ~FGt(givenH, Zero)
onlyHeightGiven == FGt(givenH, Zero) /\ ~FGt(givenW, Zero)
givenDim == IF onlyWidthGiven THEN givenW ELSE givenH

\* the candidate for the missing dimension from the velocity target, when there is one
hasFromV == FGt(needV, Zero) /\ FGt(givenQv, Zero)
fromVCandidate == mToMm(FDiv(FDiv(givenQv, needV), mmToM(givenDim)))
\* the candidate from the pressure-drop target, when solveMissingDimension gave one
hasFromDp == pc = "solveMissingDimension:returned" /\ loc.ret.some
fromDpCandidate == loc.ret.displayValueMm

\* C6: in solve-one-dimension mode with exactly one of width/height present (> 0): if
\* both a velocity-derived candidate and a pressure-drop-derived candidate exist for
\* the missing dimension, the reported missing dimension is the larger of the two; if
\* only one exists it is that one; and the present dimension is reported unchanged.
C6_LargerCandidateReported ==
  [][(SolveEnds /\ mode = "fixedDim" /\ (onlyWidthGiven \/ onlyHeightGiven)) =>
       LET reported == IF onlyWidthGiven THEN results'.height_mm ELSE results'.width_mm
           present == IF onlyWidthGiven THEN results'.width_mm ELSE results'.height_mm
       IN  /\ present = givenDim
           /\ (hasFromV /\ hasFromDp) => reported = FMax(fromVCandidate, fromDpCandidate)
           /\ (hasFromV /\ ~hasFromDp) => reported = fromVCandidate
           /\ (~hasFromV /\ hasFromDp) => reported = fromDpCandidate]_vars

\* a solve with both candidates has ended, and the dimension reported is larger than
\* the velocity candidate: it is the pressure-drop candidate
C6_BothCandidates ==
  /\ pc = "idle"
  /\ ev = "solved"
  /\ mode = "fixedDim"
  /\ onlyWidthGiven
  /\ hasFromV
  /\ FGt(results.height_mm, fromVCandidate)

\* C7: in solve-one-dimension mode, when the stated flow is zero and a velocity target
\* > 0 is given, the flow used to derive the missing dimension and for the final
\* evaluation is the velocity-implied flow velocity * area, so a missing dimension can
\* still be solved from velocity and pressure-drop targets when no flow is stated.
C7_SolvedWithoutFlow ==
  [][(/\ SolveEnds
      /\ mode = "fixedDim"
      /\ onlyWidthGiven \/ onlyHeightGiven
      /\ statedQ = Zero
      /\ FGt(needV, Zero)
      /\ FGt(needDp, Zero)) =>
       /\ results'.flow_m3s = FMul(needV, rectArea_m2_from_mm(givenW, givenH))
       /\ FGt(IF onlyWidthGiven THEN results'.height_mm ELSE results'.width_mm, Zero)]_vars

(***************************************************************************)
(* Magic mode: the user locks constraints and solves                       *)
(***************************************************************************)
LockSets == [{"flow", "width", "height", "velocity", "dp"} -> BOOLEAN]
Locking(S) == [k \in {"flow", "width", "height", "velocity", "dp"} |-> k \in S]

\* the lock sets the runs start from: every one the solve rejects, and three it accepts
MagicLockSets ==
  {lk \in LockSets : lockedCount(lk) < 2 \/ lockedCount(lk) >= 4}
    \cup {Locking({"width", "height", "velocity"}), Locking({"width", "height"}),
          Locking({"flow", "width", "height"})}

InitMagic ==
  /\ \E lk \in MagicLockSets :
       Typed("magic", "L/s", lk, <<Num(200), Num(200), Num(100), Num(5), Num(1)>>)
  /\ AtRest

Lock == \E key \in {"flow", "width", "height", "velocity", "dp"} : ToggleLock(key)

NextMagic ==
  \/ Solve
  \/ Lock
  \/ MagicVarStep
  \/ MagicRoundEnd
  \/ MagicResume

SpecMagic == InitMagic /\ [][NextMagic]_vars

\* a solve starts in magic mode with n constraints locked
MagicSolveStarts == ev' = "solve" /\ mode = "magic"
givenFlowInput == Parsed(Closure(Cur)).flowInputVal

\* C1: in magic mode with exactly 2 or 3 locked constraints, a solve ends in exactly
\* one of two outcomes: a result is reported and its RMS residual is < 1e-4, or no
\* result is reported and the 'failed to converge' warning is set; a result is never
\* reported when the best RMS is >= 1e-4 or not finite, and a result and that warning
\* are never both produced.
C1_ResultOnlyWhenConverged ==
  [][(/\ SolveEnds
      /\ mode = "magic"
      /\ lockedCount(magicLocks) >= 2
      /\ lockedCount(magicLocks) <= 3) =>
       \/ /\ "setResults" \in calls'
          /\ loc.best.some
          /\ FLt(loc.best.rms, F(1, -4))
          /\ warnings' # <<WarnFailed>>
       \/ /\ "setResults" \notin calls'
          /\ warnings' = <<WarnFailed>>]_vars

neededInput ==
  IF ~magicLocks.width THEN WarnNeedWidth
  ELSE IF ~magicLocks.height THEN WarnNeedHeight
  ELSE IF ~magicLocks.flow /\ ~magicLocks.velocity THEN WarnNeedFlowOrVelocity
  ELSE WarnNeedMore

\* C3: in magic mode, whenever fewer than 2 constraints are locked, the solve runs no
\* search, reports no result, and sets one 'Not enough constraints' warning whose named
\* input follows the priority: width if width is unlocked, else height if height is
\* unlocked, else flow-or-velocity if neither flow nor velocity is locked, else a
\* generic message.
C3_NotEnoughLocked ==
  [][(MagicSolveStarts /\ lockedCount(magicLocks) < 2) =>
       /\ warnings' = <<neededInput>>
       /\ pc' = "idle"
       /\ calls' = {}
       /\ results' = results]_vars

\* a solve with the width alone locked has ended, and the warning asks for the height
C3_HeightAsked ==
  /\ ev = "solve"
  /\ mode = "magic"
  /\ magicLocks = Locking({"width"})
  /\ warnings = <<WarnNeedHeight>>

(***************************************************************************)
(* calcRectNums called with widths, heights and flows of every kind        *)
(***************************************************************************)
EvalWidths == {Num(200), Num(1000), Num(10), Zero, Num(-100), Num(-200), F(1, -160), NaN}
EvalHeights == {Num(200), Num(50), Zero, Num(-100), Num(-300), F(1, -160), NaN}
EvalFlows == {F(1, -1), Num(2), Zero, Num(-1), NaN}

InitCalcRectNums ==
  \E w \in EvalWidths, h \in EvalHeights, Q \in EvalFlows :
    Direct("calcRectNums", [fn |-> "calcRectNums", w_mm |-> w, h_mm |-> h, Q_m3s |-> Q])

\* calcRectNums returns
CalcReturn ==
  /\ pc = "calcRectNums"
  /\ pc' = "calcRectNums:returned"
  /\ loc' = [fn |-> "calcRectNums", in |-> loc,
             ret |-> calcRectNums(loc.w_mm, loc.h_mm, loc.Q_m3s)]
  /\ ev' = "return"
  /\ UNCHANGED <<mode, liveMode, width, height, flowInput, velocity, targetDp, flowUnit,
                 bufWidth, bufHeight, bufFlowInput, bufVelocity, bufTargetDp, magicLocks,
                 results, stale, warnings, liveTimer, timers, timerEnv, call, calls, nev>>

NextCalcRectNums == CalcReturn

SpecCalcRectNums == InitCalcRectNums /\ [][NextCalcRectNums]_vars

\* C11: for every width and height passed to the evaluator, zero and negative values
\* included, the derived area and hydraulic diameter are non-negative; whenever the
\* area is 0 the evaluator returns velocity 0, Reynolds 0, friction factor NaN and
\* pressure drop +infinity.
C11_DerivedNonNegative ==
  pc = "calcRectNums:returned" =>
    /\ FGe(loc.ret.A, Zero)
    /\ FGe(loc.ret.Dh, Zero)
    /\ loc.ret.A = Zero =>
         /\ loc.ret.V = Zero
         /\ loc.ret.Re = Zero
         /\ loc.ret.f = NaN
         /\ loc.ret.dp_per_m = Inf

\* the evaluator has returned for a duct of area 0
C11_ZeroArea ==
  /\ pc = "calcRectNums:returned"
  /\ loc.ret.A = Zero
  /\ loc.ret.dp_per_m = Inf

(***************************************************************************)
(* The magic search, round by round                                        *)
(***************************************************************************)
\* the RMS residual of the state s under the locks and targets of the search l
magicRms(l, s) == residuals(s, l.locked, l.targets).rms

\* a per-variable step of the search is taken for an unlocked variable
MagicStepTaken == pc = "magic" /\ ev' = "step" /\ ~loc.locked[SearchVars[loc.k]]

\* neither perturbation of the variable in turn has a lower RMS than the current state
magicNeitherImproves ==
  LET NotLower(rms, trial) == ~FLt(magicRms(loc, trial), rms)
      Both(rms, varName) ==
        /\ NotLower(rms, magicTrial(loc.state, varName, stepFactors[varName]))
        /\ NotLower(rms, magicTrial(loc.state, varName, FDiv(Num(1), stepFactors[varName])))
  IN  Both(magicRms(loc, loc.state), SearchVars[loc.k])

\* C12: in each round of the magic search, for every unlocked variable among flow,
\* width and height, the value kept is the one with the lowest RMS among the original
\* value and its two perturbations: the original is kept whenever neither perturbation
\* has a lower RMS than the original, so a per-variable step never increases the RMS
\* residual of the current state.
C12_StepNeverWorse ==
  [][MagicStepTaken =>
       /\ magicNeitherImproves => loc'.state = loc.state
       /\ ~FGt(magicRms(loc, loc'.state), magicRms(loc, loc.state))]_vars

\* a per-variable step has changed an unlocked variable
C12_StepMoved ==
  /\ pc = "magic"
  /\ ev = "step"
  /\ loc.k = 2
  /\ ~loc.locked.flow
  /\ loc.iter >= 1
  /\ loc.state.flow # OrElse(loc.targets.flow, F(1, -1))

(***************************************************************************)
(* Magic mode with inputs of every kind: the user has typed the values b,  *)
(* pressed Solve with nothing locked, which stores the values typed and    *)
(* asks for a width (lines 331-335, 498-505), and has then locked lk       *)
(***************************************************************************)
Rejected(u, lk, b) ==
  /\ mode = "magic"
  /\ liveMode = FALSE
  /\ width = b[1]
  /\ height = b[2]
  /\ flowInput = b[3]
  /\ velocity = b[4]
  /\ targetDp = b[5]
  /\ flowUnit = u
  /\ bufWidth = b[1]
  /\ bufHeight = b[2]
  /\ bufFlowInput = b[3]
  /\ bufVelocity = b[4]
  /\ bufTargetDp = b[5]
  /\ magicLocks = lk
  /\ results = NoResult
  /\ stale = TRUE
  /\ warnings = <<WarnNeedWidth>>
  /\ liveTimer = FALSE
  /\ timers = 0
  /\ timerEnv = NoCall
  /\ ev = "init"
  /\ nev = 0

\* the cases the search starts from: unit, locks, and width, height, flow, velocity and
\* pressure-drop target as typed
MagicCases ==
  { <<"m3/s", Locking({"height", "dp"}), <<F(34, 155), F(134, 155), F(1, -20), Num(5), Num(1)>> >>,
    <<"L/s", Locking({"width", "velocity"}), <<Num(5), Num(200), Num(100), Num(5), Num(1)>> >>,
    <<"L/s", Locking({"flow", "velocity"}), <<Num(5), Num(5), Num(100), Num(5), Num(1)>> >>,
    <<"L/s", Locking({"width", "velocity"}), <<Zero, Num(200), Num(100), Num(5), Num(1)>> >>,
    <<"L/s", Locking({"width", "height", "dp"}), <<Num(-200), Num(200), Num(100), Num(5), Num(1)>> >>,
    <<"L/s", Locking({"flow", "width", "velocity"}), <<Num(200), Num(200), Num(100), Num(5), Num(1)>> >>,
    <<"m3/s", Locking({"flow", "width", "velocity"}), <<Num(200), Num(200), F(1, -1), Num(5), Num(1)>> >>,
    <<"m3/h", Locking({"flow", "width", "velocity"}), <<Num(200), Num(200), Num(360), Num(5), Num(1)>> >> }

InitMagicSearch ==
  /\ \E c \in MagicCases : Rejected(c[1], c[2], c[3])
  /\ AtRest

NextMagicSearch ==
  \/ Solve
  \/ MagicVarStep
  \/ MagicRoundEnd
  \/ MagicResume

SpecMagicSearch == InitMagicSearch /\ [][NextMagicSearch]_vars


\* the RMS a is lower than b, a number being lower than NaN
magicLower(a, b) == IF IsNaN(b) THEN ~IsNaN(a) ELSE FLt(a, b)

\* C13: the state the magic solver reports is the end-of-round state with the minimum
\* RMS over all rounds executed (the first such state on ties), the stored best RMS
\* never increases from round to round, and the loop stops at the first round after
\* which the best RMS is < 1e-4; this also holds when an early round's RMS is NaN or
\* +infinity and a later round's is finite. Round by round: the state of a round
\* replaces the best one exactly when its RMS is lower.
C13_BestIsMinimum ==
  [][/\ (pc = "magic" /\ ev' = "round") =>
          /\ loc'.best.some
          /\ IF ~loc.best.some THEN TRUE
             ELSE IF magicLower(magicRms(loc, loc.state), loc.best.rms) THEN TRUE
             ELSE loc'.best = loc.best
          /\ IF loc.best.some /\ ~magicLower(magicRms(loc, loc.state), loc.best.rms)
               THEN TRUE
               ELSE /\ loc'.best.state = loc.state
                    /\ loc'.best.rms = magicRms(loc, loc.state)
          /\ loc.best.some => ~FGt(loc'.best.rms, loc.best.rms)
          /\ loc'.done <=> (FLt(loc'.best.rms, F(1, -4)) \/ loc'.iter = MagicMaxIter)
     /\ (pc = "magic" /\ ev' = "solved") =>
          /\ results'.width_mm = loc.best.state.width
          /\ results'.height_mm = loc.best.state.height
          /\ results'.flow_m3s = loc.best.state.flow]_vars

\* a round has improved on the best state of the rounds before it
C13_LaterRoundBetter ==
  /\ pc = "magic"
  /\ ev = "round"
  /\ loc.iter >= 2
  /\ loc.best.state = loc.state


\* the floors of lines 552-554
magicFloored(w_mm, h_mm, Q_m3s) ==
  /\ FGe(w_mm, Num(10))
  /\ FGe(h_mm, Num(10))
  /\ FGe(Q_m3s, F(1, -6))

\* C14: every state the magic search evaluates at the end of a round, and the state it
\* reports, has width >= 10 mm, height >= 10 mm and flow >= 1e-6 m3/s, for every
\* initial state and lock set with 2 or 3 locks, locked or initial dimensions below
\* 10 mm included.
C14_FloorsKept ==
  /\ (pc = "magic" /\ ev = "round") =>
        magicFloored(loc.state.width, loc.state.height, loc.state.flow)
  /\ results # NoResult =>
        magicFloored(results.width_mm, results.height_mm, results.flow_m3s)

\* a round has ended with a width that was typed as 5 mm and is now at the floor
C14_RaisedToFloor ==
  /\ pc = "magic"
  /\ ev = "round"
  /\ loc.targets.width = Num(5)
  /\ loc.state.width = Num(10)


\* C15: a variable among flow, width and height that is locked in magic mode is never
\* perturbed by the search, and the reported result carries that variable at exactly
\* its locked target value, for every target value including 0.
C15_LockedKept ==
  [][/\ (pc = "magic" /\ pc' = "magic") =>
          \A i \in 1..3 :
            loc.locked[SearchVars[i]] => loc'.state[SearchVars[i]] = loc.state[SearchVars[i]]
     /\ (pc = "magic" /\ ev' = "solved") =>
          /\ loc.locked.width => results'.width_mm = call.a.w_mm
          /\ loc.locked.height => results'.height_mm = call.a.h_mm
          /\ loc.locked.flow => results'.flow_m3s = solveQ(call.env, call.a)]_vars

\* a search with the flow and the width locked has reported both as they were typed
C15_LockedReported ==
  /\ pc = "idle"
  /\ ev = "solved"
  /\ nev = 1
  /\ magicLocks.flow
  /\ magicLocks.width
  /\ results.width_mm = Num(200)
  /\ results.flow_m3s = F(1, -1)


(***************************************************************************)
(* The flow input: the user types a flow in one of the three units, in the *)
(* pressure-drop, solve-one-dimension and magic modes, and solves          *)
(***************************************************************************)
FlowModes == {"pressureDrop", "fixedDim", "magic"}
FlowInputs == {Num(100), Num(50), Num(3600)}

InitFlow ==
  /\ \E m \in FlowModes, u \in FlowUnits, q \in FlowInputs :
       Typed(m, u, Locking({"flow", "width", "velocity"}),
             <<Num(200), Num(200), q, Num(5), Num(1)>>)
  /\ AtRest

EditFlow == \E q \in FlowInputs : EditBuf("bufFlowInput", q)

NextFlow ==
  \/ Solve
  \/ EditFlow
  \/ MagicVarStep
  \/ MagicRoundEnd
  \/ MagicResume

SpecFlow == InitFlow /\ [][NextFlow]_vars

\* C16: in every mode, the flow a solve uses is the value just parsed from the flow
\* input buffer converted from the selected unit to m3/s; in particular the magic-mode
\* flow target equals the same normalized flow Q that the other modes use for that
\* invocation, even when the buffer was edited since the previous solve.
C16_FlowFromBuffer ==
  [][ev' = "solve" =>
       /\ mode # "magic" => results'.flow_m3s = statedQ
       /\ mode = "magic" => loc'.targets.flow = statedQ]_vars

\* a solve outside magic mode has used a flow typed after the one before it
C16_EditedFlowUsed ==
  /\ ev = "solve"
  /\ mode = "pressureDrop"
  /\ nev = 3
  /\ bufFlowInput = Num(50)
  /\ flowUnit = "m3/h"
  /\ results.flow_m3s = m3hToM3s(Num(50))


(***************************************************************************)
(* The write-back of a magic result (checked under SpecMagicSearch)        *)
(***************************************************************************)
\* C18: after a magic solve that reports a result, the flow value written back to the
\* flow input, converted to m3/s with the selected flow unit, equals the reported
\* flow_m3s for each of the three units; consequently a second magic solve with no
\* intervening input change uses the same flow target and initial flow as the reported
\* result and reports the same flow again.
C18_WriteBackRoundTrip ==
  [][/\ (pc = "magic" /\ ev' = "solved" /\ loc.best.some) =>
          /\ flowInputToM3s(flowInput', flowUnit') = results'.flow_m3s
          /\ flowInputToM3s(bufFlowInput', flowUnit') = results'.flow_m3s
          /\ results # NoResult => results'.flow_m3s = results.flow_m3s
     /\ (ev' = "solve" /\ pc' = "magic" /\ results # NoResult) =>
          /\ loc'.targets.flow = results.flow_m3s
          /\ loc'.state.flow = results.flow_m3s]_vars

\* a second magic solve has reported the flow of the first, in m3/s
C18_SameFlowAgain ==
  /\ pc = "idle"
  /\ ev = "solved"
  /\ nev = 2
  /\ flowUnit = "m3/s"
  /\ magicLocks.flow
  /\ results.flow_m3s = F(1, -1)
  /\ flowInput = F(1, -1)


(***************************************************************************)
(* Live mode: the user switches live mode, types widths and solves, and    *)
(* the timeouts fire                                                       *)
(***************************************************************************)
LiveWidths == {Num(200), Num(300), Num(400), Num(500)}

InitLive == Mounted /\ AtRest

SetLive == \E b \in BOOLEAN : SetLiveMode(b)
EditWidth == \E w \in LiveWidths : EditBuf("bufWidth", w)
SetUnit == \E u \in FlowUnits : SetFlowUnit(u)

NextLive ==
  \/ SetLive
  \/ EditWidth
  \/ SetUnit
  \/ Solve
  \/ TimerFire

SpecLive == InitLive /\ [][NextLive]_vars

\* C17: while live mode is on, every input change cancels any previously scheduled
\* solve before scheduling a new one, so at most one scheduled solve is pending at any
\* time and a burst of changes produces a single solve after the last change (the one
\* pending solve is that of the render after the change); and while live mode is off,
\* no solve runs unless the user presses Solve or Enter: a solve scheduled before live
\* mode was switched off does not run.
C17_SingleScheduledSolve ==
  [][/\ timers' <= 1
     /\ (liveMode' /\ (ev' = "edit" \/ ev' = "unit" \/ ev' = "live")) =>
          /\ timers' = 1
          /\ liveTimer'
          /\ timerEnv' = Closure(Cur)'
     /\ ev' = "timer" => liveMode]_vars

\* two changes in live mode have left one scheduled solve
C17_BurstOneSolve ==
  /\ liveMode
  /\ ev = "edit"
  /\ nev = 3
  /\ timers = 1
  /\ bufWidth = Num(400)

=============================================================================
